---- MODULE Spec2Model ----
(***************************************************************************)
(* A model of Zettlr's configuration defaults provider                     *)
(* (source/app/service-providers/config/get-config-template.ts) and of the *)
(* item mixin shared by the TreeItem and FileItem components.              *)
(*                                                                         *)
(* Strings of the program are TLA+ strings.  A language tag is kept as the *)
(* sequence of its subtags ("en-US" is <<"en", "US">>), which is what the  *)
(* BCP-47 parser works on after splitting at the hyphens.                  *)
(***************************************************************************)
EXTENDS Integers, Sequences, FiniteSets, TLC

\* ------------------------------------------------------------------ bounds

\* Calls of getConfigTemplate in one run of the application.
MaxInvocations == 2
\* Entries consumers append to an attachmentExtensions list.
MaxPush == 1
\* Drag coordinates range over 0..MaxCoord, window sizes over 1..MaxCoord.
MaxCoord == 2
\* Rename requests awaiting the main process's answer at one time.
MaxPending == 1

\* ------------------------------------------------------- host environment

\* JavaScript's undefined, and null.
Undefined == "undefined"
Null == "null"

\* The values of a property that is true, false or not set at all.
Flags == {"true", "false", Undefined}

\* What app.getLocale() may return: tags of installable translations, tags
\* of a language alone, a well-formed tag of no translation, and strings the
\* BCP-47 grammar rejects (the empty string, "x1", "en-x1").
HostLocales ==
  { <<"en", "US">>, <<"en", "GB">>, <<"de", "DE">>, <<"en">>, <<"de">>,
    <<"fr", "FR">>, <<"">>, <<"x1">>, <<"en", "x1">> }

\* The translations that may be installed (enumLangFiles), by tag.
TranslationTags == {<<"en", "US">>, <<"en", "GB">>, <<"de", "DE">>}

Platforms == {"darwin", "linux"}
Versions == {"3.0.0", "3.0.1"}

\* The extensions a consumer may append: a new one and one already listed.
PushableExtensions == {".md", ".pdf"}

\* The outcomes of the random draw of uuid4() the model tells apart.
RandomBits == {0, 1}

\* ------------------------------------------------- the ConfigOptions type

\* The closed sets of string literals the ConfigOptions interface declares
\* for its enumerated fields, by the field's path.
MarkdownTheme == {"berlin", "frankfurt", "bielefeld", "karl-marx-stadt", "bordeaux"}

EnumSets ==
  [ currentSidebarTab    |-> {"toc", "references", "relatedFiles", "attachments"},
    autoDarkMode         |-> {"off", "system", "schedule", "auto"},
    fileMetaTime         |-> {"modtime", "creationtime"},
    sorting              |-> {"natural", "ascii"},
    fileManagerMode      |-> {"thin", "combined", "expanded"},
    fileNameDisplay      |-> {"filename", "title", "heading", "title+heading"},
    exportDir            |-> {"temp", "cwd", "ask"},
    stripLinks           |-> {"full", "unlink", "no"},
    linkWithFilename     |-> {"always", "never", "withID"},
    linkFormat           |-> {"link|title", "title|link"},
    autoSave             |-> {"off", "immediately", "delayed"},
    citeStyle            |-> {"in-text", "in-text-suffix", "regular"},
    inputMode            |-> {"default", "vim", "emacs"},
    boldFormatting       |-> {"**", "__"},
    italicFormatting     |-> {"_", "*"},
    readabilityAlgorithm |-> {"dale-chall", "gunning-fog", "coleman-liau",
                              "automated-readability"},
    languageToolLevel    |-> {"picky", "default"},
    languageToolProvider |-> {"official", "custom"},
    theme                |-> MarkdownTheme,
    zoomBehavior         |-> {"gui", "editor"} ]

\* The enumerated fields of a record, read at their paths.
EnumValues(c) ==
  [ currentSidebarTab    |-> c.window.currentSidebarTab,
    autoDarkMode         |-> c.autoDarkMode,
    fileMetaTime         |-> c.fileMetaTime,
    sorting              |-> c.sorting,
    fileManagerMode      |-> c.fileManagerMode,
    fileNameDisplay      |-> c.fileNameDisplay,
    exportDir            |-> c.export.dir,
    stripLinks           |-> c.export.stripLinks,
    linkWithFilename     |-> c.zkn.linkWithFilename,
    linkFormat           |-> c.zkn.linkFormat,
    autoSave             |-> c.editor.autoSave,
    citeStyle            |-> c.editor.citeStyle,
    inputMode            |-> c.editor.inputMode,
    boldFormatting       |-> c.editor.boldFormatting,
    italicFormatting     |-> c.editor.italicFormatting,
    readabilityAlgorithm |-> c.editor.readabilityAlgorithm,
    languageToolLevel    |-> c.editor.lint.languageTool.level,
    languageToolProvider |-> c.editor.lint.languageTool.provider,
    theme                |-> c.display.theme,
    zoomBehavior         |-> c.system.zoomBehavior ]

\* ------------------------------------------------------ module constants

\* The literal the module-level array is created from.
AttachmentExtensionsLiteral ==
  << ".pdf", ".odt", ".odp", ".ods",
     ".doc", ".docx", ".xls", ".xlsx", ".ppt", ".pptx",
     ".do", ".r", ".py",
     ".sav", ".zsav", ".csv", ".tsv",
     ".png", ".jpg", ".jpeg", ".gif", ".tiff" >>

\* A reference to the module-level array: what a record's
\* attachmentExtensions field holds (the array is not copied).
AttachmentExtensionsRef == "ref:ATTACHMENT_EXTENSIONS"

\* The fallback locale.
EN_US == <<"en", "US">>

\* ----------------------------------------------------- locale resolution

\* Subtags of two or three letters: the shape of a primary language subtag.
IsLanguageSubtag(s) == s \in {"en", "de", "fr", "US", "GB", "DE", "FR"}

\* Subtags of two letters (or three digits): the shape of a region subtag.
IsRegionSubtag(s) == s \in {"en", "de", "fr", "US", "GB", "DE", "FR"}

\* bcp47.parse(tag), not forgiving: the schema of a well-formed tag, and
\* the empty schema (no language) of any other.
Parse(tag) ==
  IF Len(tag) = 1 /\ IsLanguageSubtag(tag[1])
    THEN [language |-> tag[1], region |-> Undefined]
  ELSE IF Len(tag) = 2 /\ IsLanguageSubtag(tag[1]) /\ IsRegionSubtag(tag[2])
    THEN [language |-> tag[1], region |-> tag[2]]
  ELSE [language |-> Undefined, region |-> Undefined]

\* getLanguageFile(query).tag over the installed translations `inst`: the
\* tag equal to the query, else a tag of the query's language, else the
\* fallback.
GetLanguageFile(query, inst) ==
  LET exact == {t \in inst : t = query}
      close == {t \in inst : Parse(t).language = Parse(query).language}
  IN  IF exact # {} THEN CHOOSE t \in exact : TRUE
      ELSE IF close # {} THEN CHOOSE t \in close : TRUE
      ELSE EN_US

\* The same with the test for an unparseable locale left out.
ResolveLocaleUnchecked(locale, inst) ==
  [locale |-> GetLanguageFile(locale, inst), consulted |-> TRUE]

\* The same with the branches exchanged.
ResolveLocaleSwapped(locale, inst) ==
  LET locSchema == Parse(locale)
  IN  IF locSchema.language # Undefined
        THEN [locale |-> EN_US, consulted |-> FALSE]
        ELSE [locale |-> GetLanguageFile(locale, inst), consulted |-> TRUE]

\* The same with the host's locale kept where it parses, no translation
\* looked up.
ResolveLocaleRaw(locale, inst) ==
  LET locSchema == Parse(locale)
  IN  IF locSchema.language = Undefined
        THEN [locale |-> EN_US, consulted |-> FALSE]
        ELSE [locale |-> locale, consulted |-> FALSE]

\* Lines 190-198 of getConfigTemplate: the locale the record gets, and
\* whether getLanguageFile was called for it.
ResolveLocale(locale, inst) ==
  LET locSchema == Parse(locale)
  IN  IF locSchema.language = Undefined
        THEN [locale |-> EN_US, consulted |-> FALSE]
        ELSE [locale |-> GetLanguageFile(locale, inst), consulted |-> TRUE]

VARIABLES
  hostLocale,              \* app.getLocale()
  platform,                \* process.platform
  appVersion,              \* app.getVersion()
  installed,               \* tags of the installed translations
  ZETTLR_VERSION,          \* module constant, read when the module is loaded
  ATTACHMENT_EXTENSIONS,   \* module-level array (one object on the heap)
  configs,                 \* the record objects handed out so far (live)
  returned,                \* per invocation: its inputs and the value returned
  uuidCalls                \* number of uuid4() calls so far

configVars == <<hostLocale, platform, appVersion, installed, ZETTLR_VERSION,
                ATTACHMENT_EXTENSIONS, configs, returned, uuidCalls>>

\* The item mixin: one TreeItem or FileItem component.
VARIABLES
  obj,                     \* the obj prop: the descriptor the item shows
  isSelectedDir,           \* this.selectedDir === this.obj
  hasChildren,             \* the component's hasChildren (tree items only)
  collapsed,               \* the component's collapsed flag
  nameEditing,             \* data: true while the user renames the item
  pending,                 \* rename requests the main process has not answered
  lastCall                 \* the last handler run: its event and what it did

itemVars == <<obj, isSelectedDir, hasChildren, collapsed, nameEditing, pending,
              lastCall>>

vars == <<configVars, itemVars>>

\* ---------------------------------------------------- getConfigTemplate

\* The object literal of lines 201-417, for the values its expressions
\* evaluate to: the version, the platform, the locale, the value of the
\* attachmentExtensions field and the uuid.  Array literals
\* ([], [ 20, 80 ], ...) are created anew by every evaluation and belong to
\* the record; the autoCorrect replacements table is such a literal too and
\* is left out, no operation reads it.  The two magic quote pairs, which
\* hold an ellipsis character, are written by name ("dq", "sq").
ConfigLiteral(version, plat, locale, attachmentExtensions, uuid) ==
  [ version |-> version,
    openPaths |-> << >>,
    openDirectory |-> Null,
    dialogPaths |-> [askFileDialog |-> "", askDirDialog |-> "",
                     askLangFileDialog |-> ""],
    window |-> [ nativeAppearance |-> (plat = "darwin"),
                 vibrancy |-> (plat = "darwin"),
                 sidebarVisible |-> FALSE,
                 currentSidebarTab |-> "toc",
                 recentGlobalSearches |-> << >> ],
    ui |-> [ fileManagerSplitSize |-> <<20, 80>>,
             editorSidebarSplitSize |-> <<80, 20>> ],
    attachmentExtensions |-> attachmentExtensions,
    darkMode |-> FALSE,
    alwaysReloadFiles |-> TRUE,
    autoDarkMode |-> "system",
    autoDarkModeStart |-> "21:00",
    autoDarkModeEnd |-> "06:00",
    fileMeta |-> TRUE,
    fileMetaTime |-> "modtime",
    sorting |-> "natural",
    sortFoldersFirst |-> TRUE,
    muteLines |-> TRUE,
    fileManagerMode |-> "combined",
    fileNameDisplay |-> "title+heading",
    newFileNamePattern |-> "%id.md",
    newFileDontPrompt |-> FALSE,
    export |-> [ dir |-> "temp",
                 stripTags |-> FALSE,
                 stripLinks |-> "full",
                 cslLibrary |-> "",
                 cslStyle |-> "",
                 useBundledPandoc |-> TRUE,
                 exportQmdWithQuarto |-> FALSE,
                 singleFileLastExporter |-> "html",
                 customCommands |-> << >> ],
    zkn |-> [ idRE |-> "(\\d{14})",
              idGen |-> "%Y%M%D%h%m%s",
              linkFilenameOnly |-> FALSE,
              linkWithFilename |-> "never",
              linkFormat |-> "link|title",
              autoSearch |-> TRUE,
              customDirectory |-> "" ],
    editor |-> [ autoSave |-> "off",
                 autocompleteSuggestEmojis |-> TRUE,
                 autoCloseBrackets |-> TRUE,
                 showLinkPreviews |-> TRUE,
                 showWhitespace |-> FALSE,
                 defaultSaveImagePath |-> "",
                 citeStyle |-> "regular",
                 enableTableHelper |-> TRUE,
                 indentUnit |-> 4,
                 indentWithTabs |-> FALSE,
                 fontSize |-> 18,
                 countChars |-> FALSE,
                 inputMode |-> "default",
                 boldFormatting |-> "**",
                 italicFormatting |-> "_",
                 readabilityAlgorithm |-> "dale-chall",
                 showStatusbar |-> TRUE,
                 showFormattingToolbar |-> TRUE,
                 lint |-> [ markdown |-> TRUE,
                            languageTool |-> [ active |-> FALSE,
                                               level |-> "picky",
                                               motherTongue |-> "",
                                               variants |-> [en |-> "en-US",
                                                             de |-> "de-DE",
                                                             pt |-> "pt-PT",
                                                             ca |-> "ca-ES"],
                                               provider |-> "official",
                                               customServer |-> "",
                                               username |-> "",
                                               apiKey |-> "" ] ],
                 autoCorrect |-> [ active |-> TRUE,
                                   magicQuotes |-> [primary |-> "dq", secondary |-> "sq"],
                                   matchWholeWords |-> FALSE ] ],
    display |-> [ theme |-> "berlin",
                  hideToolbarInDistractionFree |-> FALSE,
                  markdownFileExtensions |-> FALSE,
                  imageWidth |-> 100,
                  imageHeight |-> 50,
                  renderCitations |-> TRUE,
                  renderIframes |-> TRUE,
                  renderImages |-> TRUE,
                  renderLinks |-> TRUE,
                  renderMath |-> TRUE,
                  renderTasks |-> TRUE,
                  renderHTags |-> FALSE,
                  renderEmphasis |-> FALSE ],
    selectedDicts |-> << >>,
    appLang |-> locale,
    debug |-> FALSE,
    watchdog |-> [activatePolling |-> FALSE, stabilityThreshold |-> 1000],
    system |-> [ deleteOnFail |-> FALSE,
                 leaveAppRunning |-> FALSE,
                 avoidNewTabs |-> FALSE,
                 iframeWhitelist |-> <<"www.youtube.com", "player.vimeo.com">>,
                 checkForUpdates |-> TRUE,
                 zoomBehavior |-> "gui" ],
    checkForBeta |-> FALSE,
    displayToolbarButtons |-> [ showOpenPreferencesButton |-> TRUE,
                                showNewFileButton |-> TRUE,
                                showPreviousFileButton |-> TRUE,
                                showNextFileButton |-> TRUE,
                                showToggleReadabilityButton |-> TRUE,
                                showMarkdownCommentButton |-> TRUE,
                                showMarkdownLinkButton |-> TRUE,
                                showMarkdownImageButton |-> TRUE,
                                showMarkdownMakeTaskListButton |-> TRUE,
                                showInsertTableButton |-> TRUE,
                                showInsertFootnoteButton |-> TRUE,
                                showDocumentInfoText |-> TRUE,
                                showPomodoroButton |-> TRUE ],
    uuid |-> uuid ]

\* The value of a record object as a reader sees it: the attachmentExtensions
\* reference followed to the array it points to.
Deref(c, heapArray) ==
  IF c.attachmentExtensions = AttachmentExtensionsRef
    THEN [c EXCEPT !.attachmentExtensions = heapArray]
    ELSE c

\* uuid4(): a random version-4 uuid; `r` stands for its 122 random bits.
Uuid4(r) == [version |-> 4, rand |-> r]

\* A slip in a default: a value outside the field's declared set.
ConfigObjectEnumSlip(locale, uuid) ==
  [ConfigLiteral(ZETTLR_VERSION, platform, locale, AttachmentExtensionsRef, uuid)
     EXCEPT !.fileNameDisplay = "title-heading"]

\* A slip in the version: the literal of one release instead of the constant.
ConfigObjectVersionLiteral(locale, uuid) ==
  ConfigLiteral("3.0.0", platform, locale, AttachmentExtensionsRef, uuid)

\* The record getConfigTemplate returns for the locale it resolved and the
\* uuid it drew: version is the module's ZETTLR_VERSION, the platform is
\* process.platform, and attachmentExtensions is the module's array itself.
ConfigObject(locale, uuid) ==
  ConfigLiteral(ZETTLR_VERSION, platform, locale, AttachmentExtensionsRef, uuid)

\* The item mixin at rest, while the configuration provider is looked at.
ItemIdle ==
  /\ obj = [type |-> "file", dirNotFoundFlag |-> Undefined, parent |-> Null,
            path |-> "/ws/item", name |-> "item"]
  /\ isSelectedDir = FALSE
  /\ hasChildren = Undefined
  /\ collapsed = TRUE
  /\ nameEditing = FALSE
  /\ pending = << >>
  /\ lastCall = [handler |-> "none"]

\* The state once the module is loaded: ZETTLR_VERSION is read and the
\* ATTACHMENT_EXTENSIONS array created; nothing has been handed out.
InitConfig ==
  /\ hostLocale \in HostLocales
  /\ platform \in Platforms
  /\ appVersion \in Versions
  /\ installed \in SUBSET TranslationTags
  /\ ZETTLR_VERSION = appVersion
  /\ ATTACHMENT_EXTENSIONS = AttachmentExtensionsLiteral
  /\ configs = << >>
  /\ returned = << >>
  /\ uuidCalls = 0
  /\ ItemIdle

\* One call of getConfigTemplate().  `returned` keeps, per call, what the
\* call read from the host and the value of the record at the return.
GetConfigTemplate ==
  /\ Len(returned) < MaxInvocations
  /\ \E r \in RandomBits :
       LET resolved == ResolveLocale(hostLocale, installed)
           config == ConfigObject(resolved.locale, Uuid4(r))
       IN  /\ configs' = Append(configs, config)
           /\ returned' = Append(returned,
                [ hostLocale |-> hostLocale,
                  platform |-> platform,
                  appVersion |-> appVersion,
                  installed |-> installed,
                  consulted |-> resolved.consulted,
                  outcome |-> "returned",
                  result |-> Deref(config, ATTACHMENT_EXTENSIONS) ])
           /\ uuidCalls' = uuidCalls + 1
  /\ UNCHANGED <<hostLocale, platform, appVersion, installed, ZETTLR_VERSION,
                 ATTACHMENT_EXTENSIONS, itemVars>>

\* A consumer appends an entry to the attachmentExtensions list of a record
\* it was handed: configs[i].attachmentExtensions.push(ext).
ConsumerPushAttachmentExtension ==
  /\ \E i \in DOMAIN configs, ext \in PushableExtensions :
       /\ Len(ATTACHMENT_EXTENSIONS) < Len(AttachmentExtensionsLiteral) + MaxPush
       /\ configs[i].attachmentExtensions = AttachmentExtensionsRef
       /\ ATTACHMENT_EXTENSIONS' = Append(ATTACHMENT_EXTENSIONS, ext)
  /\ UNCHANGED <<hostLocale, platform, appVersion, installed, ZETTLR_VERSION,
                 configs, returned, uuidCalls, itemVars>>

NextConfig ==
  \/ GetConfigTemplate
  \/ ConsumerPushAttachmentExtension

Spec == InitConfig /\ [][NextConfig]_vars

\* ------------------------------------------------------------- properties

\* The invocations made so far.
Invocations == DOMAIN returned

\* A record with its uuid blanked, for comparing all other fields.
WithoutUuid(c) == [c EXCEPT !.uuid = Null]

\* A sequence without two equal entries.
NoDuplicates(q) == \A i, j \in DOMAIN q : i # j => q[i] # q[j]

\* C1: every invocation whose host locale parses to no language subtag
\* returns appLang = "en-US" and did not call getLanguageFile.
C1_UnparseableLocaleFallsBack ==
  \A i \in Invocations :
    Parse(returned[i].hostLocale).language = Undefined
      => /\ returned[i].result.appLang = EN_US
         /\ ~returned[i].consulted

C1_Witness ==
  \E i \in Invocations :
    /\ returned[i].hostLocale = <<"en", "x1">>
    /\ returned[i].result.appLang = EN_US
    /\ <<"en", "GB">> \in returned[i].installed

\* C2: every invocation whose host locale parses and is the tag of an
\* installed translation returns that tag as appLang, whatever other
\* translations of the same language are installed.
C2_ExactMatchWins ==
  \A i \in Invocations :
    /\ Parse(returned[i].hostLocale).language # Undefined
    /\ returned[i].hostLocale \in returned[i].installed
    => returned[i].result.appLang = returned[i].hostLocale

C2_Witness ==
  \E i \in Invocations :
    /\ returned[i].hostLocale = <<"en", "GB">>
    /\ returned[i].installed = {<<"en", "US">>, <<"en", "GB">>}
    /\ returned[i].result.appLang = <<"en", "GB">>

\* C3: every invocation returns a record, and its appLang is the tag of a
\* translation installed at the call or the literal "en-US".
C3_AppLangIsInstalledOrFallback ==
  \A i \in Invocations :
    /\ returned[i].outcome = "returned"
    /\ returned[i].result.appLang \in returned[i].installed \cup {EN_US}

C3_Witness ==
  \E i \in Invocations :
    /\ returned[i].hostLocale = <<"fr", "FR">>
    /\ EN_US \notin returned[i].installed
    /\ returned[i].installed # {}
    /\ returned[i].result.appLang = EN_US

\* C4: two invocations that read the same locale, version, platform and
\* installed translations return records equal in every field but uuid.
C4_EqualExceptUuid ==
  \A i, j \in Invocations :
    /\ returned[i].hostLocale = returned[j].hostLocale
    /\ returned[i].appVersion = returned[j].appVersion
    /\ returned[i].platform = returned[j].platform
    /\ returned[i].installed = returned[j].installed
    => WithoutUuid(returned[i].result) = WithoutUuid(returned[j].result)

\* C5: whatever consumers did to the records handed out before, every
\* invocation returns the literal defaults, the attachmentExtensions list
\* of the source included.
C5_ReturnsLiteralDefaults ==
  \A i \in Invocations :
    returned[i].result =
      ConfigLiteral(returned[i].appVersion, returned[i].platform,
                    ResolveLocale(returned[i].hostLocale, returned[i].installed).locale,
                    AttachmentExtensionsLiteral, returned[i].result.uuid)

\* C7: in every returned record each enumerated field holds a member of the
\* closed set the ConfigOptions interface declares for it.
C7_EnumeratedFieldsInDeclaredSets ==
  \A i \in Invocations :
    \A f \in DOMAIN EnumSets :
      EnumValues(returned[i].result)[f] \in EnumSets[f]

C7_Witness ==
  \E i \in Invocations :
    /\ returned[i].result.fileNameDisplay = "title+heading"
    /\ returned[i].result.editor.lint.languageTool.level = "picky"

C9_NoDuplicateExtensions ==
  \A i \in Invocations :
    NoDuplicates(returned[i].result.attachmentExtensions)
\* --------------------------------------------------------- the item mixin

\* The descriptor types an item shows.
ItemTypes == {"file", "code", "directory", "other"}

\* The props and store values the handlers read.
WindowId == "main"
LastLeafId == "leaf-1"
ItemPath == "/ws/dir/item"
ParentPath == "/ws/dir"

\* The descriptors the obj prop may hold.  The prop is any object: the
\* handlers read dirNotFoundFlag and parent whatever the type is.
Descriptors ==
  [ type : ItemTypes,
    dirNotFoundFlag : Flags,
    parent : {Null, ParentPath},
    path : {ItemPath},
    name : {"item"} ]

\* The events requestSelection is bound to: clicks and auxclicks of the
\* left (0), middle (1) and right (2) button, with or without the alt key.
SelectionEvents ==
  [ type : {"click", "auxclick"}, button : {0, 1, 2}, altKey : BOOLEAN ]

\* What a handler run did: the IPC messages it sent, in order, what it
\* called on the event and on the root component, and the collapsed flag
\* it leaves.
Effect(sent, stopped, prevented, toggled, col) ==
  [ sent |-> sent, stopPropagation |-> stopped, preventDefault |-> prevented,
    toggleFileList |-> toggled, collapsed |-> col ]

\* ipcRenderer.invoke(channel, { command, payload })
Invoke(channel, command, payload) ==
  [ channel |-> channel, command |-> command, payload |-> payload ]

\* The newTab flag with the alt key forcing a new tab for every type.
NewTabForAnyAlt(middleClick, alt, type) == middleClick \/ alt

\* Line 112: the newTab flag of an open-file request.
NewTab(middleClick, alt, type) == middleClick \/ (alt /\ type = "file")

\* The collapsed flag inverted whether or not the item has children.
UncollapseAlways(children, col) == (col = FALSE)

\* Lines 138-140: the collapsed flag a click on a directory leaves.
Uncollapse(children, col) == IF children = "true" THEN (col = FALSE) ELSE col

\* Lines 92-141 of requestSelection: the branches taken for a live item and
\* an event that asks for no context menu.
SelectionBranches(o, event, selected, children, col) ==
  LET middleClick == (event.type = "auxclick" /\ event.button = 1)
      alt == event.altKey
      type == o.type
  IN  IF type \in {"file", "code"}
        THEN Effect(<< Invoke("documents-provider", "open-file",
                              [ path |-> o.path,
                                windowId |-> WindowId,
                                leafId |-> LastLeafId,
                                newTab |-> NewTab(middleClick, alt, type) ]) >>,
                    FALSE, middleClick, FALSE, col)
      ELSE IF alt /\ o.parent # Null
        THEN Effect(<< Invoke("application", "set-open-directory", o.parent) >>,
                    FALSE, middleClick, FALSE, col)
      ELSE IF type = "directory"
        THEN Effect(IF selected
                      THEN << >>
                      ELSE << Invoke("application", "set-open-directory", o.path) >>,
                    FALSE, middleClick, selected,
                    Uncollapse(children, col))
      ELSE Effect(<< >>, FALSE, middleClick, FALSE, col)

\* requestSelection with the test for a dead directory after the branch
\* for files.
RequestSelectionFilesFirst(o, event, selected, children, col) ==
  IF o.type \in {"file", "code"} /\ event.button # 2
    THEN SelectionBranches(o, event, selected, children, col)
  ELSE IF o.dirNotFoundFlag = "true"
    THEN Effect(<< >>, TRUE, FALSE, FALSE, col)
  ELSE IF event.button = 2
    THEN Effect(<< >>, FALSE, FALSE, FALSE, col)
  ELSE SelectionBranches(o, event, selected, children, col)

\* requestSelection(event), lines 81-142.
RequestSelectionEffect(o, event, selected, children, col) ==
  IF o.dirNotFoundFlag = "true"
    THEN Effect(<< >>, TRUE, FALSE, FALSE, col)
  ELSE IF event.button = 2
    THEN Effect(<< >>, FALSE, FALSE, FALSE, col)
  ELSE SelectionBranches(o, event, selected, children, col)

\* ipcRenderer.send(channel, { command, payload })
Send(channel, command, payload) ==
  [ channel |-> channel, command |-> command, payload |-> payload ]

\* The drag events onDragHandler is bound to, by their coordinates, and the
\* sizes window.innerWidth and window.innerHeight may have.
DragEvents == [ x : 0..MaxCoord, y : 0..MaxCoord ]
WindowSizes == [ innerWidth : 1..MaxCoord, innerHeight : 1..MaxCoord ]

\* onDragHandler without the test for a directory.
OnDragDirectoriesToo(o, event, win, col) ==
  IF event.x = 0 \/ event.y = 0 \/ event.x = win.innerWidth
       \/ event.y = win.innerHeight
    THEN Effect(<< Send("window-controls", "drag-start", [filePath |-> o.path]) >>,
                TRUE, TRUE, FALSE, col)
  ELSE Effect(<< >>, FALSE, FALSE, FALSE, col)

\* onDragHandler(event), lines 280-302.
OnDragEffect(o, event, win, col) ==
  LET x == event.x
      y == event.y
      w == win.innerWidth
      h == win.innerHeight
  IN  IF o.type = "directory"
        THEN Effect(<< >>, FALSE, FALSE, FALSE, col)
      ELSE IF x = 0 \/ y = 0 \/ x = w \/ y = h
        THEN Effect(<< Send("window-controls", "drag-start", [filePath |-> o.path]) >>,
                    TRUE, TRUE, FALSE, col)
      ELSE Effect(<< >>, FALSE, FALSE, FALSE, col)

\* The names finishNameEditing may be given: the item's own, and new ones.
NewNames == {"item", "renamed"}

\* finishNameEditing with the rename of a file requested for every type.
FinishNameEditingFileRenameOnly(o, newName, col) ==
  IF newName = o.name
    THEN Effect(<< >>, FALSE, FALSE, FALSE, col)
    ELSE Effect(<< Invoke("application", "file-rename",
                          [path |-> o.path, name |-> newName]) >>,
                FALSE, FALSE, FALSE, col)

\* finishNameEditing(newName), lines 308-324, up to its return: the request
\* it sends.  The request's continuation is RequestSettles.
FinishNameEditingEffect(o, newName, col) ==
  IF newName = o.name
    THEN Effect(<< >>, FALSE, FALSE, FALSE, col)
    ELSE LET command == IF o.type = "directory" THEN "dir-rename" ELSE "file-rename"
         IN  Effect(<< Invoke("application", command,
                              [path |-> o.path, name |-> newName]) >>,
                    FALSE, FALSE, FALSE, col)

\* The entries of the context menus handleContextMenu reacts to: those of
\* the directory menu and those of the file menu.
DirMenuIds ==
  { "menu.rename_dir", "menu.new_file", "menu.new_dir", "menu.delete_dir",
    "menu.close_workspace", "menu.project_build", "menu.properties" }
FileMenuIds ==
  { "new-tab", "menu.rename_file", "menu.duplicate_file", "menu.delete_file",
    "properties", "menu.close_file" }

\* Lines 154-273: the IPC messages the callback of handleContextMenu sends
\* for the entry clicked.  Creating files and directories and showing the
\* properties go to the component and its popovers, not to the main process.
ContextMenuSent(o, clickedID) ==
  IF o.type = "directory"
    THEN CASE clickedID = "menu.delete_dir" ->
                << Invoke("application", "dir-delete", [path |-> o.path]) >>
           [] clickedID = "menu.close_workspace" ->
                << Invoke("application", "root-close", o.path) >>
           [] clickedID = "menu.project_build" ->
                << Invoke("application", "dir-project-export", o.path) >>
           [] OTHER -> << >>
    ELSE CASE clickedID = "new-tab" ->
                << Invoke("documents-provider", "open-file",
                          [path |-> o.path, windowId |-> WindowId, newTab |-> TRUE]) >>
           [] clickedID = "menu.duplicate_file" ->
                << Invoke("application", "file-duplicate",
                          [path |-> o.path, windowId |-> WindowId,
                           leafId |-> LastLeafId]) >>
           [] clickedID = "menu.delete_file" ->
                << Invoke("application", "file-delete", [path |-> o.path]) >>
           [] clickedID = "menu.close_file" ->
                << Invoke("application", "root-close", o.path) >>
           [] OTHER -> << >>

\* Lines 156-157 and 214-215: the entries that put the item in rename mode.
ContextMenuRenames(o, clickedID) ==
  IF o.type = "directory"
    THEN clickedID = "menu.rename_dir"
    ELSE clickedID = "menu.rename_file"

\* The configuration provider at rest, while the item mixin is looked at.
ConfigIdle ==
  /\ hostLocale = EN_US
  /\ platform = "linux"
  /\ appVersion = "3.0.0"
  /\ installed = {EN_US}
  /\ ZETTLR_VERSION = appVersion
  /\ ATTACHMENT_EXTENSIONS = AttachmentExtensionsLiteral
  /\ configs = << >>
  /\ returned = << >>
  /\ uuidCalls = 0

\* A mounted item: any descriptor; only a directory can be the selected
\* directory.
InitItem ==
  /\ obj \in Descriptors
  /\ isSelectedDir \in BOOLEAN
  /\ isSelectedDir => obj.type = "directory"
  /\ hasChildren \in Flags
  /\ collapsed \in BOOLEAN
  /\ nameEditing = FALSE
  /\ pending = << >>
  /\ lastCall = [handler |-> "none"]
  /\ ConfigIdle

\* The user clicks the item: requestSelection(event) runs to its end.
RequestSelection ==
  /\ \E event \in SelectionEvents :
       LET did == RequestSelectionEffect(obj, event, isSelectedDir,
                                         hasChildren, collapsed)
       IN  /\ collapsed' = did.collapsed
           /\ lastCall' = [ handler |-> "requestSelection",
                            event |-> event,
                            collapsedBefore |-> collapsed,
                            did |-> did ]
  /\ UNCHANGED <<obj, isSelectedDir, hasChildren, nameEditing, pending, configVars>>

\* The user drags the item: onDragHandler(event) runs to its end.
OnDragHandler ==
  /\ \E event \in DragEvents, win \in WindowSizes :
       lastCall' = [ handler |-> "onDragHandler",
                     event |-> event,
                     window |-> win,
                     collapsedBefore |-> collapsed,
                     did |-> OnDragEffect(obj, event, win, collapsed) ]
  /\ UNCHANGED <<obj, isSelectedDir, hasChildren, collapsed, nameEditing, pending,
                 configVars>>

\* The user picks an entry of the item's context menu: handleContextMenu
\* has shown the menu of the item's kind and its callback runs.
HandleContextMenu ==
  /\ \E clickedID \in (IF obj.type = "directory" THEN DirMenuIds ELSE FileMenuIds) :
       /\ nameEditing' = (nameEditing \/ ContextMenuRenames(obj, clickedID))
       /\ lastCall' = [ handler |-> "handleContextMenu",
                        clickedID |-> clickedID,
                        collapsedBefore |-> collapsed,
                        did |-> Effect(ContextMenuSent(obj, clickedID),
                                       FALSE, FALSE, FALSE, collapsed) ]
  /\ UNCHANGED <<obj, isSelectedDir, hasChildren, collapsed, pending, configVars>>

\* The user ends the renaming: finishNameEditing(newName) runs to its
\* return.  A request it sends waits in `pending` for its answer.
FinishNameEditing ==
  /\ \E newName \in NewNames :
       LET did == FinishNameEditingEffect(obj, newName, collapsed)
       IN  /\ Len(pending) + Len(did.sent) <= MaxPending
           /\ pending' = pending \o did.sent
           /\ lastCall' = [ handler |-> "finishNameEditing",
                            newName |-> newName,
                            nameEditingBefore |-> nameEditing,
                            collapsedBefore |-> collapsed,
                            did |-> did ]
  /\ UNCHANGED <<obj, isSelectedDir, hasChildren, collapsed, nameEditing,
                 configVars>>

\* The main process answers a rename request: the promise resolves or
\* rejects, .catch logs a rejection, and .finally leaves rename mode
\* (lines 322-323).
RequestSettles ==
  /\ \E i \in DOMAIN pending, outcome \in {"resolved", "rejected"} :
       /\ pending' = SubSeq(pending, 1, i - 1) \o SubSeq(pending, i + 1, Len(pending))
       /\ nameEditing' = FALSE
  /\ UNCHANGED <<obj, isSelectedDir, hasChildren, collapsed, lastCall, configVars>>

NextItem ==
  \/ RequestSelection
  \/ OnDragHandler
  \/ HandleContextMenu
  \/ FinishNameEditing
  \/ RequestSettles

SpecItem == InitItem /\ [][NextItem]_vars

\* The same, with every rename request answered in the end.
SpecItemFair == SpecItem /\ WF_vars(RequestSettles)

\* C10: a run of requestSelection on a dead directory, or for a
\* right-button event, sends no IPC message, does not toggle the file list
\* and leaves collapsed as it was; on a dead directory it stops the event's
\* propagation, whatever the item's type and the event's keys are.
C10_DeadOrRightButtonIsNoOp ==
  lastCall.handler = "requestSelection"
    => /\ (obj.dirNotFoundFlag = "true" \/ lastCall.event.button = 2)
            => /\ lastCall.did.sent = << >>
               /\ ~lastCall.did.toggleFileList
               /\ collapsed = lastCall.collapsedBefore
       /\ obj.dirNotFoundFlag = "true" => lastCall.did.stopPropagation

C10_Witness ==
  /\ lastCall.handler = "requestSelection"
  /\ obj.dirNotFoundFlag = "true"
  /\ obj.type = "file"
  /\ lastCall.event = [type |-> "click", button |-> 0, altKey |-> TRUE]
  /\ lastCall.did.stopPropagation
  /\ lastCall.did.sent = << >>

\* The last handler run was requestSelection on a live item, for an event
\* of another button than the right one.
LiveSelection ==
  /\ lastCall.handler = "requestSelection"
  /\ obj.dirNotFoundFlag # "true"
  /\ lastCall.event.button # 2

\* The event of the last handler run was a click of the middle button.
WasMiddleClick == lastCall.event.type = "auxclick" /\ lastCall.event.button = 1

\* C11: for a live file or code item and an event of another button than
\* the right one, requestSelection sends exactly one message, an open-file
\* request to documents-provider (so no set-open-directory) with the item's
\* path, the windowId and the store's lastLeafId, and newTab is true
\* exactly for a middle click or an alt-click on a file.
C11_FileItemsOpenTheFile ==
  LiveSelection /\ obj.type \in {"file", "code"}
    => /\ Len(lastCall.did.sent) = 1
       /\ lastCall.did.sent[1].channel = "documents-provider"
       /\ lastCall.did.sent[1].command = "open-file"
       /\ lastCall.did.sent[1].payload.path = obj.path
       /\ lastCall.did.sent[1].payload.windowId = WindowId
       /\ lastCall.did.sent[1].payload.leafId = LastLeafId
       /\ lastCall.did.sent[1].payload.newTab
            = (WasMiddleClick \/ (lastCall.event.altKey /\ obj.type = "file"))

C11_Witness ==
  /\ LiveSelection
  /\ obj.type = "code"
  /\ lastCall.event = [type |-> "click", button |-> 0, altKey |-> TRUE]
  /\ Len(lastCall.did.sent) = 1
  /\ lastCall.did.sent[1].payload.newTab = FALSE

WasOnWindowEdge ==
  \/ lastCall.event.x = 0
  \/ lastCall.event.y = 0
  \/ lastCall.event.x = lastCall.window.innerWidth
  \/ lastCall.event.y = lastCall.window.innerHeight

\* C13: onDragHandler sends drag-start with the item's path on
\* window-controls, and stops the event's propagation and default, exactly
\* when the item is no directory and the drag is at an edge of the window;
\* otherwise, so for every directory, it sends nothing and leaves the event
\* alone.
C13_DragLeavesTheWindowOnlyForFiles ==
  lastCall.handler = "onDragHandler"
    => IF obj.type # "directory" /\ WasOnWindowEdge
         THEN /\ lastCall.did.sent
                   = << Send("window-controls", "drag-start", [filePath |-> obj.path]) >>
              /\ lastCall.did.stopPropagation
              /\ lastCall.did.preventDefault
         ELSE /\ lastCall.did.sent = << >>
              /\ ~lastCall.did.stopPropagation
              /\ ~lastCall.did.preventDefault

C13_Witness ==
  /\ lastCall.handler = "onDragHandler"
  /\ obj.type = "directory"
  /\ lastCall.event = [x |-> 0, y |-> 1]
  /\ lastCall.window = [innerWidth |-> 2, innerHeight |-> 2]
  /\ lastCall.did.sent = << >>

\* C14: finishNameEditing(newName) sends exactly one request on application
\* when newName differs from the item's name, dir-rename for a directory
\* and file-rename for every other type, with the item's path and the new
\* name; it sends nothing when newName is the item's name.
C14_RenameRequestOnlyForANewName ==
  lastCall.handler = "finishNameEditing"
    => IF lastCall.newName # obj.name
         THEN lastCall.did.sent
                = << [ channel |-> "application",
                       command |-> IF obj.type = "directory"
                                     THEN "dir-rename" ELSE "file-rename",
                       payload |-> [path |-> obj.path, name |-> lastCall.newName] ] >>
         ELSE lastCall.did.sent = << >>

C14_Witness ==
  /\ lastCall.handler = "finishNameEditing"
  /\ obj.type = "directory"
  /\ lastCall.newName = "renamed"
  /\ Len(lastCall.did.sent) = 1
  /\ lastCall.did.sent[1].command = "dir-rename"

\* C15: once finishNameEditing has been called while nameEditing was true,
\* nameEditing becomes false in the end, whatever the new name was, given
\* that every rename request is answered.
C15_RenameModeEnds ==
  (lastCall.handler = "finishNameEditing" /\ lastCall.nameEditingBefore)
    ~> (nameEditing = FALSE)

====
